---- MODULE Spec2Model ----
(***************************************************************************)
(* A model of racer's core.rs: IndexedSource and its views (Src), the      *)
(* chunk iterator of a view (CodeChunkIter), the arena-backed FileCache    *)
(* with its freed/available slot recycling, and the Session overlay.       *)
(*                                                                         *)
(* Text is a sequence of bytes (0..255).  An arena slot is a number        *)
(* 1..Len(arena); a reference to an IndexedSource is the slot number, and  *)
(* 0 stands for "no entry" in a map.  The filesystem is the environment:   *)
(* what a path holds is an input of every operation that reads it.         *)
(***************************************************************************)
EXTENDS Integers, Sequences, FiniteSets, TLC

\* ------------------------------------------------------------------ bounds
NumPaths == 2
MaxSlots == 4
MaxSessions == 2
MaxLen == 4
MaxChunks == 2
MaxOffset == 6
MaxExpr == 4
MaxMatches == 2
MaxRef == 2

Paths == 1..NumPaths
SessionIds == 1..MaxSessions

\* ------------------------------------------------------------ bytes, text
SLASH == 47
QUOTE == 34
NEWLINE == 10
FILLER == 32

BOM == <<239, 187, 191>>

\* what the filesystem may hold for a path
File(bytes) == [kind |-> "file", bytes |-> bytes]
NoFile == [kind |-> "missing", bytes |-> <<>>]
IoError == [kind |-> "ioerror", bytes |-> <<>>]

\* the file contents the properties range over
FileBytes ==
    { <<>>,
      <<97>>,
      BOM,
      BOM \o <<97>>,
      BOM \o BOM \o <<97>>,
      <<97, SLASH, SLASH, 98>>,
      <<255>>,
      BOM \o <<255>> }

DiskStates == {File(b) : b \in FileBytes} \cup {NoFile, IoError}

\* the filesystem states the calls of a run meet
DiskInputs == {NoFile, File(BOM \o <<97>>), File(<<255>>)}

\* the same, for the runs over several sessions: the files that are there
SessionInputs == {d \in DiskInputs : d.kind = "file"}

\* the buffers callers hand to cache_file_contents (valid UTF-8 by type)
Bufs ==
    { <<97>>,
      <<97, SLASH, SLASH, 98>> }

Min(a, b) == IF a < b THEN a ELSE b
Max(a, b) == IF a > b THEN a ELSE b

IsCont(b) == b >= 128 /\ b <= 191

\* String::from_utf8: is the whole byte sequence well-formed UTF-8?
RECURSIVE Utf8From(_, _)
Utf8From(bytes, i) ==
    IF i > Len(bytes) THEN TRUE
    ELSE LET b == bytes[i]
             n == Len(bytes)
         IN  IF b < 128 THEN Utf8From(bytes, i + 1)
             ELSE IF b >= 194 /\ b <= 223
                  THEN /\ i + 1 <= n
                       /\ IsCont(bytes[i + 1])
                       /\ Utf8From(bytes, i + 2)
             ELSE IF b >= 224 /\ b <= 239
                  THEN /\ i + 2 <= n
                       /\ IsCont(bytes[i + 1])
                       /\ IsCont(bytes[i + 2])
                       /\ (b = 224 => bytes[i + 1] >= 160)
                       /\ (b = 237 => bytes[i + 1] <= 159)
                       /\ Utf8From(bytes, i + 3)
             ELSE IF b >= 240 /\ b <= 244
                  THEN /\ i + 3 <= n
                       /\ IsCont(bytes[i + 1])
                       /\ IsCont(bytes[i + 2])
                       /\ IsCont(bytes[i + 3])
                       /\ (b = 240 => bytes[i + 1] >= 144)
                       /\ (b = 244 => bytes[i + 1] <= 143)
                       /\ Utf8From(bytes, i + 4)
             ELSE FALSE

from_utf8_ok(bytes) == Utf8From(bytes, 1)

\* ------------------------------------------- lexer collaborator (codecleaner)
\* IsCodeAt(text)[i] : is byte i (1-based) real code, i.e. outside a line
\* comment and outside the body of a string literal?
RECURSIVE Scan(_, _, _)
Scan(text, i, mode) ==
    IF i > Len(text) THEN <<>>
    ELSE IF mode = "code"
         THEN IF text[i] = QUOTE
              THEN <<TRUE>> \o Scan(text, i + 1, "str")
              ELSE IF /\ text[i] = SLASH
                      /\ i + 1 <= Len(text)
                      /\ text[i + 1] = SLASH
                   THEN <<FALSE>> \o Scan(text, i + 1, "comment")
                   ELSE <<TRUE>> \o Scan(text, i + 1, "code")
    ELSE IF mode = "str"
         THEN IF text[i] = QUOTE
              THEN <<TRUE>> \o Scan(text, i + 1, "code")
              ELSE <<FALSE>> \o Scan(text, i + 1, "str")
    ELSE IF text[i] = NEWLINE
         THEN <<TRUE>> \o Scan(text, i + 1, "code")
         ELSE <<FALSE>> \o Scan(text, i + 1, "comment")

IsCodeAt(text) == Scan(text, 1, "code")

\* the maximal runs of code bytes as half-open 0-based ranges <<start, end>>
RECURSIVE Runs(_, _, _)
Runs(flags, i, open) ==
    IF i > Len(flags)
    THEN IF open >= 0 THEN << <<open, Len(flags)>> >> ELSE <<>>
    ELSE IF flags[i]
         THEN Runs(flags, i + 1, IF open >= 0 THEN open ELSE i - 1)
         ELSE IF open >= 0
              THEN << <<open, i - 1>> >> \o Runs(flags, i + 1, -1)
              ELSE Runs(flags, i + 1, -1)

code_chunks(text) == Runs(IsCodeAt(text), 1, -1)

\* scopes::mask_comments on a text: same length, non-code bytes blanked
MaskText(text) ==
    LET flags == IsCodeAt(text)
    IN  [i \in 1..Len(text) |-> IF flags[i] THEN text[i] ELSE FILLER]

\* ---------------------------------------------------- IndexedSource and Src
IndexedSource_new(src) == [code |-> src, idx |-> code_chunks(src)]

\* with_src indexing the new text instead of copying the indices
with_src_reindexed(self, new_src) == IndexedSource_new(new_src)

with_src(self, new_src) == [code |-> new_src, idx |-> self.idx]

\* a view: the slot it points to and its byte range
as_ref(slot, source) == [src |-> slot, from |-> 0, to |-> Len(source.code)]

\* Deref for Src: the text a view shows, given the IndexedSource it points to
Src_deref(source, v) == SubSeq(source.code, v.from + 1, v.to)

mask_comments(source, v) == MaskText(Src_deref(source, v))

\* ------------------------------------------------------------- FileCache
VARIABLES
    arena,        \* Seq of IndexedSource: slot k is arena[k]
    raw_map,      \* path -> slot of the raw source, 0 when absent
    masked_map,   \* path -> slot of the masked source, 0 when absent
    allocations_available,  \* Seq of slots to reuse before growing the arena
    allocations_freed,      \* Seq of slots superseded in this generation
    sessions,     \* session id -> the Session alive under it, or NoSession
    views,        \* session id -> the Src values handed out to that session
    cached,       \* path -> the buffer cache_file_contents was last given for
                  \* it, as a one-element sequence; <<>> when there was none
    panicked,     \* a panic has unwound the calling thread
    last,         \* the call that was made last, and what it returned
    iter,         \* a CodeChunkIter and what it has yielded so far
    substr,       \* an IndexedSource and a Src restricted from its as_ref
    query         \* a completion query and what was answered to it

vars == <<arena, raw_map, masked_map, allocations_available,
          allocations_freed, sessions, views, cached, panicked, last, iter, substr, query>>

cacheVars == <<arena, raw_map, masked_map, allocations_available,
               allocations_freed>>

NoSession == [query_path |-> 0, substitute_file |-> 0]

\* the FileCache as one value
Cache == [arena |-> arena, raw_map |-> raw_map, masked_map |-> masked_map,
          available |-> allocations_available, freed |-> allocations_freed]

FileCache_new == [arena |-> <<>>,
                  raw_map |-> [p \in Paths |-> 0],
                  masked_map |-> [p \in Paths |-> 0],
                  available |-> <<>>,
                  freed |-> <<>>]

Reverse(s) == [i \in 1..Len(s) |-> s[Len(s) + 1 - i]]

\* update_available_allocations reading the freed list without popping it
update_available_allocations_copy(c) ==
    [c EXCEPT !.available = c.available \o Reverse(c.freed)]

\* pops freed until it is empty, pushing each slot on available
update_available_allocations(c) ==
    [c EXCEPT !.available = c.available \o Reverse(c.freed),
              !.freed = <<>>]

needs_alloc(c) == Len(c.available) = 0

\* alloc always taking a new slot from the arena
alloc_fresh(c, value) ==
    [c |-> [c EXCEPT !.arena = Append(c.arena, value)],
     slot |-> Len(c.arena) + 1,
     over |-> {}]

\* alloc taking a slot from the freed list when none is available
alloc_from_freed(c, value) ==
    IF needs_alloc(c) /\ Len(c.freed) = 0
    THEN [c |-> [c EXCEPT !.arena = Append(c.arena, value)],
          slot |-> Len(c.arena) + 1,
          over |-> {}]
    ELSE IF needs_alloc(c)
         THEN LET ptr == c.freed[Len(c.freed)]
              IN  [c |-> [c EXCEPT !.freed = SubSeq(c.freed, 1, Len(c.freed) - 1),
                                   !.arena[ptr] = value],
                   slot |-> ptr,
                   over |-> {ptr}]
         ELSE LET ptr == c.available[Len(c.available)]
              IN  [c |-> [c EXCEPT !.available = SubSeq(c.available, 1, Len(c.available) - 1),
                                   !.arena[ptr] = value],
                   slot |-> ptr,
                   over |-> {ptr}]

\* alloc reading the last available slot without popping it
alloc_peek(c, value) ==
    IF needs_alloc(c)
    THEN [c |-> [c EXCEPT !.arena = Append(c.arena, value)],
          slot |-> Len(c.arena) + 1,
          over |-> {}]
    ELSE LET ptr == c.available[Len(c.available)]
         IN  [c |-> [c EXCEPT !.arena[ptr] = value],
              slot |-> ptr,
              over |-> {ptr}]

\* alloc reusing a slot without writing the new value into it
alloc_nowrite(c, value) ==
    IF needs_alloc(c)
    THEN [c |-> [c EXCEPT !.arena = Append(c.arena, value)],
          slot |-> Len(c.arena) + 1,
          over |-> {}]
    ELSE LET ptr == c.available[Len(c.available)]
         IN  [c |-> [c EXCEPT !.available = SubSeq(c.available, 1, Len(c.available) - 1)],
              slot |-> ptr,
              over |-> {ptr}]

\* alloc: the cache after it, the slot returned, and whether the slot was
\* an old one written over in place
alloc(c, value) ==
    IF needs_alloc(c)
    THEN [c |-> [c EXCEPT !.arena = Append(c.arena, value)],
          slot |-> Len(c.arena) + 1,
          over |-> {}]
    ELSE LET ptr == c.available[Len(c.available)]
         IN  [c |-> [c EXCEPT !.available = SubSeq(c.available, 1, Len(c.available) - 1),
                              !.arena[ptr] = value],
              slot |-> ptr,
              over |-> {ptr}]

open_file(d) == IF d.kind = "missing" THEN "Err" ELSE "Ok"

\* read_file looking for the BOM only in files of more than three bytes
read_file_short(d) ==
    IF open_file(d) = "Ok"
    THEN IF d.kind = "ioerror"
         THEN [panic |-> TRUE, bytes |-> <<>>]
         ELSE LET rawbytes == d.bytes
              IN  IF Len(rawbytes) > 3 /\ SubSeq(rawbytes, 1, 3) = BOM
                  THEN [panic |-> FALSE, bytes |-> SubSeq(rawbytes, 4, Len(rawbytes))]
                  ELSE [panic |-> FALSE, bytes |-> rawbytes]
    ELSE [panic |-> FALSE, bytes |-> <<>>]

\* read_file unwrapping the result of open_file
read_file_unwrap(d) ==
    IF open_file(d) = "Ok"
    THEN IF d.kind = "ioerror"
         THEN [panic |-> TRUE, bytes |-> <<>>]
         ELSE LET rawbytes == d.bytes
              IN  IF Len(rawbytes) > 2 /\ SubSeq(rawbytes, 1, 3) = BOM
                  THEN [panic |-> FALSE, bytes |-> SubSeq(rawbytes, 4, Len(rawbytes))]
                  ELSE [panic |-> FALSE, bytes |-> rawbytes]
    ELSE [panic |-> TRUE, bytes |-> <<>>]

\* read_file on a path holding d: the bytes returned, or a panic when
\* read_to_end fails on the opened file
read_file(d) ==
    IF open_file(d) = "Ok"
    THEN IF d.kind = "ioerror"
         THEN [panic |-> TRUE, bytes |-> <<>>]
         ELSE LET rawbytes == d.bytes
              IN  IF Len(rawbytes) > 2 /\ SubSeq(rawbytes, 1, 3) = BOM
                  THEN [panic |-> FALSE, bytes |-> SubSeq(rawbytes, 4, Len(rawbytes))]
                  ELSE [panic |-> FALSE, bytes |-> rawbytes]
    ELSE [panic |-> FALSE, bytes |-> <<>>]

\* The result of a cache operation: the cache after it, the slot of the view
\* returned (0: none), the slots written over in place, whether the
\* filesystem was read, and whether the call panicked (the cache is then as
\* before the call).
Panic(c, rd) == [c |-> c, slot |-> 0, over |-> {}, read |-> rd, panic |-> TRUE]

\* load_file reading the file again although the path is registered
load_file_reread(c, filepath, d) ==
    LET rawbytes == read_file(d)
    IN  IF rawbytes.panic \/ ~from_utf8_ok(rawbytes.bytes)
        THEN Panic(c, TRUE)
        ELSE LET a == alloc(c, IndexedSource_new(rawbytes.bytes))
             IN  [c |-> [a.c EXCEPT !.raw_map[filepath] = a.slot],
                  slot |-> a.slot, over |-> a.over,
                  read |-> TRUE, panic |-> FALSE]

load_file(c, filepath, d) ==
    IF c.raw_map[filepath] # 0
    THEN [c |-> c, slot |-> c.raw_map[filepath], over |-> {},
          read |-> FALSE, panic |-> FALSE]
    ELSE LET rawbytes == read_file(d)
         IN  IF rawbytes.panic \/ ~from_utf8_ok(rawbytes.bytes)
             THEN Panic(c, TRUE)
             ELSE LET a == alloc(c, IndexedSource_new(rawbytes.bytes))
                  IN  [c |-> [a.c EXCEPT !.raw_map[filepath] = a.slot],
                       slot |-> a.slot, over |-> a.over,
                       read |-> TRUE, panic |-> FALSE]

load_file_and_mask_comments(c, filepath, d) ==
    IF c.masked_map[filepath] # 0
    THEN [c |-> c, slot |-> c.masked_map[filepath], over |-> {},
          read |-> FALSE, panic |-> FALSE]
    ELSE LET r == load_file(c, filepath, d)
         IN  IF r.panic
             THEN Panic(c, r.read)
             ELSE LET source == r.c.arena[r.slot]
                      src == as_ref(r.slot, source)
                      a == alloc(r.c, with_src(source, mask_comments(source, src)))
                  IN  [c |-> [a.c EXCEPT !.masked_map[filepath] = a.slot],
                       slot |-> a.slot, over |-> r.over \cup a.over,
                       read |-> r.read, panic |-> FALSE]

\* cache_file_contents handing the superseded slots straight to the available
\* list, so that they are reused at once
cache_file_contents_eager(c, filepath, buf) ==
    LET prevRaw == c.raw_map[filepath]
        c1 == IF prevRaw # 0
              THEN [c EXCEPT !.available = Append(c.available, prevRaw)]
              ELSE c
        a1 == alloc(c1, IndexedSource_new(buf))
        c2 == [a1.c EXCEPT !.raw_map[filepath] = a1.slot]
        prevMasked == c2.masked_map[filepath]
        c3 == IF prevMasked # 0
              THEN [c2 EXCEPT !.available = Append(c2.available, prevMasked)]
              ELSE c2
        r == load_file(c3, filepath, NoFile)
        source == r.c.arena[r.slot]
        src == as_ref(r.slot, source)
        a2 == alloc(r.c, with_src(source, mask_comments(source, src)))
    IN  [c |-> [a2.c EXCEPT !.masked_map[filepath] = a2.slot],
         slot |-> 0, over |-> a1.over \cup r.over \cup a2.over,
         read |-> r.read, panic |-> r.panic]

\* cache_file_contents leaving a masked registration it finds as it is
cache_file_contents_stale(c, filepath, buf) ==
    LET prevRaw == c.raw_map[filepath]
        c1 == IF prevRaw # 0
              THEN [c EXCEPT !.freed = Append(c.freed, prevRaw)]
              ELSE c
        a1 == alloc(c1, IndexedSource_new(buf))
        c2 == [a1.c EXCEPT !.raw_map[filepath] = a1.slot]
    IN  IF c2.masked_map[filepath] # 0
        THEN [c |-> c2, slot |-> 0, over |-> a1.over,
              read |-> FALSE, panic |-> FALSE]
        ELSE LET source == c2.arena[a1.slot]
                 src == as_ref(a1.slot, source)
                 a2 == alloc(c2, with_src(source, mask_comments(source, src)))
             IN  [c |-> [a2.c EXCEPT !.masked_map[filepath] = a2.slot],
                  slot |-> 0, over |-> a1.over \cup a2.over,
                  read |-> FALSE, panic |-> FALSE]

\* cache_file_contents dropping the masked source it supersedes
cache_file_contents_leak(c, filepath, buf) ==
    LET prevRaw == c.raw_map[filepath]
        c1 == IF prevRaw # 0
              THEN [c EXCEPT !.freed = Append(c.freed, prevRaw)]
              ELSE c
        a1 == alloc(c1, IndexedSource_new(buf))
        c2 == [a1.c EXCEPT !.raw_map[filepath] = a1.slot]
        r == load_file(c2, filepath, NoFile)
        source == r.c.arena[r.slot]
        src == as_ref(r.slot, source)
        a2 == alloc(r.c, with_src(source, mask_comments(source, src)))
    IN  [c |-> [a2.c EXCEPT !.masked_map[filepath] = a2.slot],
         slot |-> 0, over |-> a1.over \cup r.over \cup a2.over,
         read |-> r.read, panic |-> r.panic]

cache_file_contents(c, filepath, buf) ==
    LET \* update raw file
        prevRaw == c.raw_map[filepath]
        c1 == IF prevRaw # 0
              THEN [c EXCEPT !.freed = Append(c.freed, prevRaw)]
              ELSE c
        a1 == alloc(c1, IndexedSource_new(buf))
        c2 == [a1.c EXCEPT !.raw_map[filepath] = a1.slot]
        \* also update the masked version
        prevMasked == c2.masked_map[filepath]
        c3 == IF prevMasked # 0
              THEN [c2 EXCEPT !.freed = Append(c2.freed, prevMasked)]
              ELSE c2
        r == load_file(c3, filepath, NoFile)
        source == r.c.arena[r.slot]
        src == as_ref(r.slot, source)
        a2 == alloc(r.c, with_src(source, mask_comments(source, src)))
    IN  [c |-> [a2.c EXCEPT !.masked_map[filepath] = a2.slot],
         slot |-> 0, over |-> a1.over \cup r.over \cup a2.over,
         read |-> r.read, panic |-> r.panic]

\* ----------------------------------------------------------------- Session
Session_from_path(query_path, substitute_file) ==
    [query_path |-> query_path, substitute_file |-> substitute_file]

\* resolve_path without the redirection
resolve_path_plain(self, path) == path

resolve_path(self, path) ==
    IF path = self.query_path THEN self.substitute_file ELSE path

\* The file operations of a Session on cache c; fs gives the state of the
\* filesystem at every path.
Session_cache_file_contents(self, c, filepath, buf) ==
    cache_file_contents(c, filepath, buf)

Session_open_file(self, path, fs) == open_file(fs[resolve_path(self, path)])

Session_read_file(self, path, fs) == read_file(fs[resolve_path(self, path)])

Session_load_file(self, c, filepath, fs) ==
    load_file(c, resolve_path(self, filepath), fs[resolve_path(self, filepath)])

Session_load_file_and_mask_comments(self, c, filepath, fs) ==
    load_file_and_mask_comments(c, resolve_path(self, filepath),
                                fs[resolve_path(self, filepath)])

\* ----------------------------------------------------------- CodeChunkIter
\* chunk_indices: an iterator over the stored chunks idx for the view
\* [from, to); pos chunks have been taken from the slice iterator, out is
\* what next() has yielded, done says that next() has returned None.
chunk_indices(idx, from, to) ==
    [idx |-> idx, from |-> from, to |-> to, pos |-> 0, out |-> <<>>, done |-> FALSE]

NoIter == chunk_indices(<<>>, 0, 0)

\* next() yielding the end of the chunk without clipping it to the view
RECURSIVE CodeChunkIter_next_unclipped(_)
CodeChunkIter_next_unclipped(it) ==
    IF it.pos >= Len(it.idx)
    THEN [it EXCEPT !.done = TRUE]
    ELSE LET start == it.idx[it.pos + 1][1]
             end == it.idx[it.pos + 1][2]
             taken == [it EXCEPT !.pos = it.pos + 1]
         IN  IF end < it.from
             THEN CodeChunkIter_next_unclipped(taken)
             ELSE IF start > it.to
                  THEN [taken EXCEPT !.done = TRUE]
                  ELSE [taken EXCEPT !.out = Append(it.out,
                            <<Max(start, it.from) - it.from,
                              end - it.from>>)]

\* next() also skipping the chunks that end exactly where the view begins
RECURSIVE CodeChunkIter_next_strict(_)
CodeChunkIter_next_strict(it) ==
    IF it.pos >= Len(it.idx)
    THEN [it EXCEPT !.done = TRUE]
    ELSE LET start == it.idx[it.pos + 1][1]
             end == it.idx[it.pos + 1][2]
             taken == [it EXCEPT !.pos = it.pos + 1]
         IN  IF end <= it.from
             THEN CodeChunkIter_next_strict(taken)
             ELSE IF start > it.to
                  THEN [taken EXCEPT !.done = TRUE]
                  ELSE [taken EXCEPT !.out = Append(it.out,
                            <<Max(start, it.from) - it.from,
                              Min(end, it.to) - it.from>>)]

\* one call of CodeChunkIter::next
RECURSIVE CodeChunkIter_next(_)
CodeChunkIter_next(it) ==
    IF it.pos >= Len(it.idx)
    THEN [it EXCEPT !.done = TRUE]
    ELSE LET start == it.idx[it.pos + 1][1]
             end == it.idx[it.pos + 1][2]
             taken == [it EXCEPT !.pos = it.pos + 1]
         IN  IF end < it.from
             THEN CodeChunkIter_next(taken)
             ELSE IF start > it.to
                  THEN [taken EXCEPT !.done = TRUE]
                  ELSE [taken EXCEPT !.out = Append(it.out,
                            <<Max(start, it.from) - it.from,
                              Min(end, it.to) - it.from>>)]

\* --------------------------------------------------- restricting a view
\* Src::from, Src::to and Src::from_to: usize sums, with no check against
\* the view restricted or the text
Src_from(self, from) ==
    [src |-> self.src, from |-> self.from + from, to |-> self.to]

Src_to(self, to) ==
    [src |-> self.src, from |-> self.from, to |-> self.from + to]

Src_from_to(self, from, to) ==
    [src |-> self.src, from |-> self.from + from, to |-> self.from + to]

NoSrc == [source |-> IndexedSource_new(<<>>), v |-> as_ref(0, IndexedSource_new(<<>>)),
          op |-> "none"]

\* ------------------------------------------ complete and find_definition
\* An expression is a sequence of characters: "a" stands for an identifier
\* character, ":" and "." are the separators.
ExprChars == {"a", ":", "."}

RECURSIVE SeqsUpTo(_, _)
SeqsUpTo(S, n) ==
    IF n = 0 THEN {<<>>}
    ELSE LET shorter == SeqsUpTo(S, n - 1)
         IN  shorter \cup {Append(q, x) : q \in shorter, x \in S}

Exprs == SeqsUpTo(ExprChars, MaxExpr)

Matches == 1..MaxMatches

\* what the resolver returns: a list of Match, duplicates retained
MatchLists == SeqsUpTo(Matches, 2)

Range(q) == {q[i] : i \in 1..Len(q)}

\* str::split("::"): the pieces between the occurrences of "::", taken from
\* the left without overlap; cur is the piece being read
RECURSIVE Split(_, _)
Split(s, cur) ==
    IF s = <<>>
    THEN <<cur>>
    ELSE IF Len(s) >= 2 /\ s[1] = ":" /\ s[2] = ":"
         THEN <<cur>> \o Split(SubSeq(s, 3, Len(s)), <<>>)
         ELSE Split(Tail(s), Append(cur, s[1]))

\* Ty, with Option<Ty> and Box<Ty> as sequences of at most one element
TyMatch(m) == [kind |-> "TyMatch", m |-> m, inner |-> <<>>]
TyRefPtr(ty) == [kind |-> "TyRefPtr", m |-> 0, inner |-> <<ty>>]
TyVec(ty) == [kind |-> "TyVec", m |-> 0, inner |-> <<ty>>]
TyUnsupported == [kind |-> "TyUnsupported", m |-> 0, inner |-> <<>>]

RECURSIVE Tys(_)
Tys(depth) ==
    LET base == {TyMatch(m) : m \in Matches}
                    \cup {TyVec(TyMatch(1)), TyUnsupported}
    IN  IF depth = 0 THEN base
        ELSE base \cup {TyRefPtr(ty) : ty \in Tys(depth - 1)}

PathSegment(name) == [name |-> name, types |-> <<>>]

Path_from_vec(global, v) ==
    [global |-> global, segments |-> [i \in 1..Len(v) |-> PathSegment(v[i])]]

\* scopes::split_into_context_and_completion: cut at the last character that
\* is not an identifier character
LastSeparator(expr) ==
    LET seps == {i \in 1..Len(expr) : expr[i] # "a"}
    IN  IF seps = {} THEN 0 ELSE CHOOSE i \in seps : \A j \in seps : j <= i

split_into_context_and_completion(expr) ==
    LET i == LastSeparator(expr)
        tail == SubSeq(expr, i + 1, Len(expr))
    IN  IF i = 0
        THEN [contextstr |-> <<>>, searchstr |-> expr, completetype |-> "CompletePath"]
        ELSE IF expr[i] = "."
             THEN [contextstr |-> SubSeq(expr, 1, i - 1), searchstr |-> tail,
                   completetype |-> "CompleteField"]
             ELSE [contextstr |-> SubSeq(expr, 1, IF i > 1 /\ expr[i - 1] = ":"
                                                  THEN i - 2 ELSE i - 1),
                   searchstr |-> tail, completetype |-> "CompletePath"]

\* The program the query runs in, as the collaborators see it: the resolver
\* finds items under one path, the AST bridge types one context, and one
\* Match has fields or methods for one search string.
NoEnv == [path |-> Path_from_vec(FALSE, <<>>), context |-> <<>>, ty |-> <<>>,
          owner |-> 0, search |-> <<>>, starts |-> <<>>, exact |-> <<>>]

Results(env, stype) == IF stype = "ExactMatch" THEN env.exact ELSE env.starts

nameres_resolve_path(env, path, stype) ==
    IF path = env.path THEN Results(env, stype) ELSE <<>>

get_type_of(env, contextstr) ==
    IF contextstr = env.context THEN env.ty ELSE <<>>

search_for_field_or_method(env, m, searchstr, stype) ==
    IF m = env.owner /\ searchstr = env.search THEN Results(env, stype) ELSE <<>>

\* Iterator::nth(0)
nth0(q) == IF q = <<>> THEN <<>> ELSE <<q[1]>>

RECURSIVE complete_field_for_ty(_, _, _, _, _)
complete_field_for_ty(env, ty, searchstr, stype, out) ==
    IF ty.kind = "TyMatch"
    THEN out \o search_for_field_or_method(env, ty.m, searchstr, stype)
    ELSE IF ty.kind = "TyRefPtr"
         THEN complete_field_for_ty(env, ty.inner[1], searchstr, stype, out)
         ELSE out

\* complete_from_file splitting without dropping the leading empty piece
complete_path_keep(expr) == Path_from_vec(Split(expr, <<>>)[1] = <<>>, Split(expr, <<>>))

\* the Path complete_from_file builds from expr
complete_path(expr) ==
    LET v == Split(expr, <<>>)
    IN  IF v[1] = <<>> THEN Path_from_vec(TRUE, Tail(v)) ELSE Path_from_vec(FALSE, v)

\* find_definition_ never taking the path for global
find_definition_path_local(expr) ==
    LET v == Split(expr, <<>>)
    IN  [global |-> FALSE, segments |-> [i \in 1..Len(v) |-> PathSegment(v[i])]]

\* the Path find_definition_ builds from expr
find_definition_path(expr) ==
    LET v == Split(expr, <<>>)
        global == v[1] = <<>>
        w == IF global THEN Tail(v) ELSE v
    IN  [global |-> global, segments |-> [i \in 1..Len(w) |-> PathSegment(w[i])]]

\* complete_from_file, from the expression carved out of src at pos on
\* (get_start_of_search_expr is not part of core.rs): the matches collected,
\* and the Path handed to the resolver, if any
complete_from_file(env, expr) ==
    LET sp == split_into_context_and_completion(expr)
    IN  IF sp.completetype = "CompletePath"
        THEN LET path == complete_path(expr)
             IN  [out |-> nameres_resolve_path(env, path, "StartsWith"),
                  path |-> <<path>>]
        ELSE LET context == get_type_of(env, sp.contextstr)
             IN  [out |-> IF context = <<>> THEN <<>>
                          ELSE complete_field_for_ty(env, context[1], sp.searchstr,
                                                     "StartsWith", <<>>),
                  path |-> <<>>]

\* find_definition_, from the expression carved out of src at pos on
\* (expand_search_expr is not part of core.rs): the Option<Match> returned,
\* and the Path handed to the resolver, if any
find_definition_(env, expr) ==
    LET sp == split_into_context_and_completion(expr)
    IN  IF sp.completetype = "CompletePath"
        THEN LET path == find_definition_path(expr)
             IN  [def |-> nth0(nameres_resolve_path(env, path, "ExactMatch")),
                  path |-> <<path>>]
        ELSE LET context == get_type_of(env, sp.contextstr)
             IN  [def |-> IF context = <<>> THEN <<>>
                          ELSE IF context[1].kind = "TyMatch"
                               THEN nth0(search_for_field_or_method(env, context[1].m,
                                             sp.searchstr, "ExactMatch"))
                               ELSE <<>>,
                  path |-> <<>>]

NoQuery == [expr |-> <<>>, env |-> NoEnv,
            completed |-> FALSE, out |-> <<>>, cpath |-> <<>>,
            found |-> FALSE, def |-> <<>>, fpath |-> <<>>]

\* ----------------------------------------------------------------- actions
\* The FileCache is only accessed by the Session: every call is made
\* through a Session that is alive.
Callers == {sid \in SessionIds : sessions[sid] # NoSession}

\* A call reads at most the file at the path it is carried out on: d is the
\* state of that file.
Fs(d) == [p \in Paths |-> d]

\* what the caller learns of the file: nothing when the call did not read it
Seen(d, rd) == IF rd THEN d ELSE NoFile

NoCall == [op |-> "none", sid |-> 0, path |-> 0, on |-> 0, disk |-> NoFile,
           buf |-> <<>>, prev |-> <<>>, ret |-> <<>>, slot |-> 0, over |-> {},
           read |-> FALSE, opened |-> FALSE, panic |-> FALSE]

\* a slot written over in place leaves every view of it dangling
Clobber(vs, over) ==
    [sid \in SessionIds |->
        {[v EXCEPT !.dangling = v.dangling \/ (v.src \in over)] : v \in vs[sid]}]

HandOut(vs, sid, slot) ==
    [vs EXCEPT ![sid] = vs[sid] \cup {[src |-> slot, dangling |-> FALSE]}]

\* the slots Session S gets a view of without changing the cache: load_file
\* and load_file_and_mask_comments on a registered path return its slot
Reach(S, c) ==
    ({c.raw_map[resolve_path(S, p)] : p \in Paths}
        \cup {c.masked_map[resolve_path(S, p)] : p \in Paths}) \ {0}

\* The caller of a Session keeps every view it was given, and after each call
\* takes the view of every path that is registered. The views of any other
\* caller are a subset of these.
Keep(vs, c, ss) ==
    [sid \in SessionIds |->
        IF ss[sid] = NoSession
        THEN vs[sid]
        ELSE vs[sid] \cup {[src |-> k, dangling |-> FALSE] : k \in Reach(ss[sid], c)}]

SetCache(c) ==
    /\ arena' = c.arena
    /\ raw_map' = c.raw_map
    /\ masked_map' = c.masked_map
    /\ allocations_available' = c.available
    /\ allocations_freed' = c.freed

\* the effect of a call that returns a view (load_file and its masked twin)
Loaded(op, sid, path, d, r) ==
    /\ SetCache(r.c)
    /\ panicked' = r.panic
    /\ views' = IF r.panic THEN views
                ELSE Keep(HandOut(Clobber(views, r.over), sid, r.slot),
                          r.c, sessions)
    /\ last' = [NoCall EXCEPT !.op = op, !.sid = sid, !.path = path,
                              !.on = resolve_path(sessions[sid], path),
                              !.disk = Seen(d, r.read),
                              !.ret = IF r.panic THEN <<>> ELSE r.c.arena[r.slot].code,
                              !.slot = r.slot, !.over = r.over,
                              !.read = r.read, !.panic = r.panic]
    /\ UNCHANGED <<sessions, cached, iter, substr, query>>

Init ==
    /\ arena = FileCache_new.arena
    /\ raw_map = FileCache_new.raw_map
    /\ masked_map = FileCache_new.masked_map
    /\ allocations_available = FileCache_new.available
    /\ allocations_freed = FileCache_new.freed
    /\ sessions = [sid \in SessionIds |-> NoSession]
    /\ views = [sid \in SessionIds |-> {}]
    /\ cached = [p \in Paths |-> <<>>]
    /\ panicked = FALSE
    /\ last = NoCall
    /\ iter = NoIter
    /\ substr = NoSrc
    /\ query = NoQuery

\* Session::from_path, for a caller that keeps one Session at a time
NewSession(sid, query_path, substitute_file) ==
    /\ ~panicked
    /\ \A other \in SessionIds : sessions[other] = NoSession
    /\ sid = 1
    /\ sessions' = [sessions EXCEPT ![sid] = Session_from_path(query_path, substitute_file)]
    /\ views' = Keep(views, Cache, sessions')
    /\ last' = [NoCall EXCEPT !.op = "from_path", !.sid = sid]
    /\ UNCHANGED <<cacheVars, cached, panicked, iter, substr, query>>

\* impl Drop for Session
DropSession(sid) ==
    /\ ~panicked
    /\ sessions[sid] # NoSession
    /\ SetCache(update_available_allocations(Cache))
    /\ sessions' = [sessions EXCEPT ![sid] = NoSession]
    /\ views' = [views EXCEPT ![sid] = {}]
    /\ last' = [NoCall EXCEPT !.op = "drop", !.sid = sid]
    /\ UNCHANGED <<cached, panicked, iter, substr, query>>

\* Session::cache_file_contents
CacheFileContents(sid, filepath, buf) ==
    /\ ~panicked
    /\ sid \in Callers
    /\ LET r == Session_cache_file_contents(sessions[sid], Cache, filepath, buf)
           on == filepath   \* the path is handed to the FileCache as it is
       IN  /\ Len(r.c.arena) <= MaxSlots
           /\ SetCache(r.c)
           /\ views' = Keep(Clobber(views, r.over), r.c, sessions)
           /\ cached' = [cached EXCEPT ![on] = <<buf>>]
           /\ last' = [NoCall EXCEPT !.op = "cache_file_contents", !.sid = sid,
                                     !.path = filepath, !.on = on,
                                     !.buf = buf, !.prev = cached[on],
                                     !.over = r.over]
    /\ UNCHANGED <<sessions, panicked, iter, substr, query>>

\* Session::open_file
OpenFile(sid, path, d) ==
    /\ ~panicked
    /\ sid \in Callers
    /\ last' = [NoCall EXCEPT !.op = "open_file", !.sid = sid, !.path = path,
                              !.on = resolve_path(sessions[sid], path),
                              !.disk = [d EXCEPT !.bytes = <<>>],
                              !.opened = Session_open_file(sessions[sid], path, Fs(d)) = "Ok"]
    /\ UNCHANGED <<cacheVars, sessions, views, cached, panicked, iter, substr, query>>

\* Session::read_file
ReadFile(sid, path, d) ==
    /\ ~panicked
    /\ sid \in Callers
    /\ LET r == Session_read_file(sessions[sid], path, Fs(d))
       IN  /\ panicked' = r.panic
           /\ last' = [NoCall EXCEPT !.op = "read_file", !.sid = sid, !.path = path,
                                     !.on = resolve_path(sessions[sid], path),
                                     !.disk = d, !.ret = r.bytes,
                                     !.read = TRUE, !.panic = r.panic]
    /\ UNCHANGED <<cacheVars, sessions, views, cached, iter, substr, query>>

\* Session::load_file
LoadFile(sid, filepath, d) ==
    /\ ~panicked
    /\ sid \in Callers
    /\ LET r == Session_load_file(sessions[sid], Cache, filepath, Fs(d))
       IN  /\ Len(r.c.arena) <= MaxSlots
           /\ Loaded("load_file", sid, filepath, d, r)

\* Session::load_file_and_mask_comments
LoadFileAndMaskComments(sid, filepath, d) ==
    /\ ~panicked
    /\ sid \in Callers
    /\ LET r == Session_load_file_and_mask_comments(sessions[sid], Cache, filepath, Fs(d))
       IN  /\ Len(r.c.arena) <= MaxSlots
           /\ Loaded("load_file_and_mask_comments", sid, filepath, d, r)

Next ==
    \/ \E sid \in SessionIds, q \in Paths, s \in Paths : NewSession(sid, q, s)
    \/ \E sid \in SessionIds : DropSession(sid)
    \/ \E sid \in SessionIds, p \in Paths, buf \in Bufs : CacheFileContents(sid, p, buf)
    \/ \E sid \in SessionIds, p \in Paths, d \in SessionInputs : LoadFile(sid, p, d)
    \/ \E sid \in SessionIds, p \in Paths, d \in SessionInputs :
          LoadFileAndMaskComments(sid, p, d)

Spec == Init /\ [][Next]_vars

\* ------------------------------------------- Sessions alive side by side
\* Session::from_path, for a caller that makes a Session while it keeps others:
\* from_path borrows the FileCache shared, so nothing stops it
OpenSession(sid, query_path, substitute_file) ==
    /\ ~panicked
    /\ sessions[sid] = NoSession
    /\ \E other \in SessionIds : sessions[other] # NoSession
    /\ sessions' = [sessions EXCEPT ![sid] = Session_from_path(query_path, substitute_file)]
    /\ views' = Keep(views, Cache, sessions')
    /\ last' = [NoCall EXCEPT !.op = "from_path", !.sid = sid]
    /\ UNCHANGED <<cacheVars, cached, panicked, iter, substr, query>>

NextSessions ==
    \/ Next
    \/ \E sid \in SessionIds, q \in Paths, s \in Paths : OpenSession(sid, q, s)

SpecSessions == Init /\ [][NextSessions]_vars

\* ---------------------------------------------- file operations of a Session
\* A Session over a new FileCache, with every pair of query path and
\* substitute file, reading files in every state of the filesystem.
InitFiles ==
    /\ arena = FileCache_new.arena
    /\ raw_map = FileCache_new.raw_map
    /\ masked_map = FileCache_new.masked_map
    /\ allocations_available = FileCache_new.available
    /\ allocations_freed = FileCache_new.freed
    /\ \E q \in Paths, s \in Paths :
          sessions = [sid \in SessionIds |->
                         IF sid = 1 THEN Session_from_path(q, s) ELSE NoSession]
    /\ views = [sid \in SessionIds |-> {}]
    /\ cached = [p \in Paths |-> <<>>]
    /\ panicked = FALSE
    /\ last = NoCall
    /\ iter = NoIter
    /\ substr = NoSrc
    /\ query = NoQuery

NextFiles ==
    \/ \E sid \in SessionIds, p \in Paths, d \in DiskStates : OpenFile(sid, p, d)
    \/ \E sid \in SessionIds, p \in Paths, d \in DiskStates : ReadFile(sid, p, d)
    \/ \E sid \in SessionIds, p \in Paths, d \in DiskInputs : LoadFile(sid, p, d)
    \/ \E sid \in SessionIds, p \in Paths, d \in DiskInputs :
          LoadFileAndMaskComments(sid, p, d)

SpecFiles == InitFiles /\ [][NextFiles]_vars

\* ------------------------------------------------ iterating a view's chunks
\* chunk lists that are sorted and non-overlapping, within a text of len bytes
RECURSIVE ChunkLists(_, _, _)
ChunkLists(lo, len, n) ==
    {<<>>} \cup
    (IF n = 0 THEN {}
     ELSE UNION {{<<<<s, e>>>> \o rest : rest \in ChunkLists(e, len, n - 1)} :
                 s \in lo..len, e \in lo..len})

SortedChunks(idx) ==
    /\ \A k \in 1..Len(idx) : idx[k][1] < idx[k][2]
    /\ \A k \in 1..(Len(idx) - 1) : idx[k][2] <= idx[k + 1][1]

InitIter ==
    /\ arena = FileCache_new.arena
    /\ raw_map = FileCache_new.raw_map
    /\ masked_map = FileCache_new.masked_map
    /\ allocations_available = FileCache_new.available
    /\ allocations_freed = FileCache_new.freed
    /\ sessions = [sid \in SessionIds |-> NoSession]
    /\ views = [sid \in SessionIds |-> {}]
    /\ cached = [p \in Paths |-> <<>>]
    /\ panicked = FALSE
    /\ last = NoCall
    /\ \E len \in 0..MaxLen :
         \E idx \in {l \in ChunkLists(0, len, MaxChunks) : SortedChunks(l)} :
           \E from \in 0..len, to \in 0..len :
              /\ from <= to
              /\ iter = chunk_indices(idx, from, to)
    /\ substr = NoSrc
    /\ query = NoQuery

\* the consumer calls next() until it returns None
ChunkIterNext ==
    /\ ~iter.done
    /\ iter' = CodeChunkIter_next(iter)
    /\ UNCHANGED <<cacheVars, sessions, views, cached, panicked, last, substr, query>>

NextIter == ChunkIterNext

SpecIter == InitIter /\ [][NextIter]_vars

\* ------------------------------------------------------ restricting views
\* A view of a whole IndexedSource, restricted any number of times. The
\* offsets are usize: the runs stay below MaxOffset, far from its wrap.
InitView ==
    /\ arena = FileCache_new.arena
    /\ raw_map = FileCache_new.raw_map
    /\ masked_map = FileCache_new.masked_map
    /\ allocations_available = FileCache_new.available
    /\ allocations_freed = FileCache_new.freed
    /\ sessions = [sid \in SessionIds |-> NoSession]
    /\ views = [sid \in SessionIds |-> {}]
    /\ cached = [p \in Paths |-> <<>>]
    /\ panicked = FALSE
    /\ last = NoCall
    /\ iter = NoIter
    /\ query = NoQuery
    /\ \E text \in Bufs \cup {<<>>} :
          LET source == IndexedSource_new(text)
          IN  substr = [source |-> source, v |-> as_ref(1, source), op |-> "as_ref"]

Restricted(op, v) ==
    /\ substr' = [substr EXCEPT !.v = v, !.op = op]
    /\ UNCHANGED <<cacheVars, sessions, views, cached, panicked, last, iter, query>>

SrcFrom(from) ==
    LET v == Src_from(substr.v, from)
    IN  /\ v.from <= MaxOffset
        /\ Restricted("from", v)

SrcTo(to) ==
    LET v == Src_to(substr.v, to)
    IN  /\ v.to <= MaxOffset
        /\ Restricted("to", v)

SrcFromTo(from, to) ==
    LET v == Src_from_to(substr.v, from, to)
    IN  /\ v.from <= MaxOffset
        /\ v.to <= MaxOffset
        /\ Restricted("from_to", v)

NextView ==
    \/ \E from \in 0..MaxOffset : SrcFrom(from)
    \/ \E to \in 0..MaxOffset : SrcTo(to)
    \/ \E from \in 0..MaxOffset, to \in 0..MaxOffset : SrcFromTo(from, to)

SpecView == InitView /\ [][NextView]_vars

\* ------------------------------------------------------------ the queries
\* the two entry points, called in any order on the same expression
Complete ==
    /\ ~query.completed
    /\ LET r == complete_from_file(query.env, query.expr)
       IN  query' = [query EXCEPT !.completed = TRUE, !.out = r.out, !.cpath = r.path]
    /\ UNCHANGED <<cacheVars, sessions, views, cached, panicked, last, iter, substr>>

FindDefinition ==
    /\ ~query.found
    /\ LET r == find_definition_(query.env, query.expr)
       IN  query' = [query EXCEPT !.found = TRUE, !.def = r.def, !.fpath = r.path]
    /\ UNCHANGED <<cacheVars, sessions, views, cached, panicked, last, iter, substr>>

NextQuery == Complete \/ FindDefinition

\* every expression, in a program where nothing resolves
InitPath ==
    /\ arena = FileCache_new.arena
    /\ raw_map = FileCache_new.raw_map
    /\ masked_map = FileCache_new.masked_map
    /\ allocations_available = FileCache_new.available
    /\ allocations_freed = FileCache_new.freed
    /\ sessions = [sid \in SessionIds |-> NoSession]
    /\ views = [sid \in SessionIds |-> {}]
    /\ cached = [p \in Paths |-> <<>>]
    /\ panicked = FALSE
    /\ last = NoCall
    /\ iter = NoIter
    /\ substr = NoSrc
    /\ \E expr \in Exprs : query = [NoQuery EXCEPT !.expr = expr]

SpecPath == InitPath /\ [][NextQuery]_vars

\* the expressions the queries are made on: a name, a global path, a path of
\* two segments, a field, all fields, and nothing
QueryExprs ==
    { <<>>,
      <<"a">>,
      <<":", ":", "a">>,
      <<"a", ":", ":", "a">>,
      <<"a", ".", "a">>,
      <<"a", ".">> }

\* what the resolver answers: every exact match is also a starts-with match
Answers ==
    {a \in [starts : MatchLists, exact : MatchLists] : Range(a.exact) \subseteq Range(a.starts)}

\* the programs expr is queried in
Envs(expr) ==
    LET sp == split_into_context_and_completion(expr)
    IN  IF sp.completetype = "CompletePath"
        THEN {[NoEnv EXCEPT !.path = path, !.starts = a.starts, !.exact = a.exact] :
                path \in {complete_path(expr), find_definition_path(expr)},
                a \in Answers}
        ELSE {[NoEnv EXCEPT !.context = sp.contextstr, !.ty = ty, !.owner = m,
                            !.search = sp.searchstr,
                            !.starts = a.starts, !.exact = a.exact] :
                ty \in {<<>>} \cup {<<t>> : t \in Tys(MaxRef)},
                m \in Matches,
                a \in Answers}

InitQuery ==
    /\ arena = FileCache_new.arena
    /\ raw_map = FileCache_new.raw_map
    /\ masked_map = FileCache_new.masked_map
    /\ allocations_available = FileCache_new.available
    /\ allocations_freed = FileCache_new.freed
    /\ sessions = [sid \in SessionIds |-> NoSession]
    /\ views = [sid \in SessionIds |-> {}]
    /\ cached = [p \in Paths |-> <<>>]
    /\ panicked = FALSE
    /\ last = NoCall
    /\ iter = NoIter
    /\ substr = NoSrc
    /\ \E expr \in QueryExprs :
          \E env \in Envs(expr) : query = [NoQuery EXCEPT !.expr = expr, !.env = env]

SpecQuery == InitQuery /\ [][NextQuery]_vars

\* ================================================================== claims
\* what a call that returns a view shows the caller: whether it panicked,
\* and the text and the chunks of the view
Shown(r) ==
    IF r.panic
    THEN [panic |-> TRUE, code |-> <<>>, idx |-> <<>>]
    ELSE [panic |-> FALSE, code |-> r.c.arena[r.slot].code,
          idx |-> r.c.arena[r.slot].idx]

Alive(sid) == sessions[sid] # NoSession

\* ---------------------------------------------------------------------- C1
\* C1: with at most one Session alive at a time, no view handed out to a
\* Session that is still alive points to a slot that alloc has since
\* written over in place.
C1_NoDanglingView ==
    \A sid \in SessionIds :
        Alive(sid) => \A v \in views[sid] : ~v.dangling

\* a slot was reused by cache_file_contents while the Session holds a view of
\* a slot superseded in this same session
C1_Witness ==
    /\ last.op = "cache_file_contents"
    /\ last.over # {}
    /\ \E sid \in SessionIds :
          /\ Alive(sid)
          /\ \E v \in views[sid] :
                \E k \in 1..Len(allocations_freed) : allocations_freed[k] = v.src

\* ---------------------------------------------------------------------- C2
\* C2: once cache_file_contents(p, buf) was called, and until it is called
\* for p again, load_file(p) shows exactly buf and
\* load_file_and_mask_comments(p) shows mask_comments(buf), whatever the
\* filesystem holds for p.
C2_CachedContentsReturned ==
    \A p \in Paths :
        cached[p] # <<>> =>
            \A d \in DiskStates :
                LET raw == Shown(load_file(Cache, p, d))
                    masked == Shown(load_file_and_mask_comments(Cache, p, d))
                IN  /\ ~raw.panic
                    /\ raw.code = cached[p][1]
                    /\ ~masked.panic
                    /\ masked.code = MaskText(cached[p][1])

\* a path registered before was registered again, with another text, into
\* slots taken from the available list
C2_Witness ==
    /\ last.op = "cache_file_contents"
    /\ last.over # {}
    /\ last.prev # <<>>
    /\ last.prev # <<last.buf>>
    /\ cached[last.on] = <<last.buf>>
    /\ raw_map[last.on] \in last.over

\* ---------------------------------------------------------------------- C3
FileOps == {"open_file", "read_file", "load_file",
            "load_file_and_mask_comments", "cache_file_contents"}

\* C3: every file operation made through a Session on the session's
\* query_path is carried out on substitute_file, and on any other path on
\* that path itself.
C3_OverlayRouting ==
    (last.op \in FileOps /\ last.sid \in SessionIds /\ Alive(last.sid)) =>
        last.on = (IF last.path = sessions[last.sid].query_path
                   THEN sessions[last.sid].substitute_file
                   ELSE last.path)

\* ---------------------------------------------------------------------- C4
AllSessions == {Session_from_path(q, s) : q \in Paths, s \in Paths}

\* the filesystems the comparison ranges over: the file at path q holds dq,
\* the file at every other path holds ds
FsInputs(q) ==
    {[p \in Paths |-> IF p = q THEN dq ELSE ds] :
        dq \in {NoFile, File(<<97>>)}, ds \in DiskInputs}

\* C4: for a Session S = (q, s) and any Session P that does not redirect s,
\* S.load_file(q) and S.load_file_and_mask_comments(q) show the same text and
\* chunks as P.load_file(s) and P.load_file_and_mask_comments(s) and leave the
\* cache in the same state, in which key q is registered only if it was before
\* (or is s itself).
C4_OverlayIdempotence ==
    \A sid \in SessionIds :
        Alive(sid) =>
            LET S == sessions[sid]
                q == S.query_path
                s == S.substitute_file
            IN  \A fs \in FsInputs(q) :
                    LET sr == Session_load_file(S, Cache, q, fs)
                        sm == Session_load_file_and_mask_comments(S, Cache, q, fs)
                    IN  /\ q # s => /\ sr.c.raw_map[q] = raw_map[q]
                                    /\ sm.c.raw_map[q] = raw_map[q]
                                    /\ sm.c.masked_map[q] = masked_map[q]
                        /\ \A P \in AllSessions :
                              (P.query_path # s \/ P.substitute_file = s) =>
                                  \* the same view, text and chunks, and
                                  \* the same cache afterwards
                                  /\ sr = Session_load_file(P, Cache, s, fs)
                                  /\ sm = Session_load_file_and_mask_comments(P, Cache, s, fs)

\* load_file_and_mask_comments was called through a redirecting Session on its
\* query path, and registered the substitute file but not the query path
C4_Witness ==
    /\ last.op = "load_file_and_mask_comments"
    /\ Alive(last.sid)
    /\ last.path = sessions[last.sid].query_path
    /\ last.on = sessions[last.sid].substitute_file
    /\ last.on # last.path
    /\ last.read
    /\ raw_map[last.on] # 0 /\ masked_map[last.on] # 0
    /\ raw_map[last.path] = 0 /\ masked_map[last.path] = 0

\* ---------------------------------------------------------------------- C5
\* what load_file and load_file_and_mask_comments show for every path, in
\* every state of the filesystem
Observable(c) ==
    [p \in Paths |->
        [d \in DiskStates |->
            <<Shown(load_file(c, p, d)),
              Shown(load_file_and_mask_comments(c, p, d))>>]]

\* C5: a call cache_file_contents(p, t) for a path whose last registration by
\* cache_file_contents had the same text t leaves what load_file and
\* load_file_and_mask_comments show, for p and for every other path, as it was.
C5_ReRegistrationIdempotent ==
    [][(/\ last'.op = "cache_file_contents"
        /\ cached[last'.on] = <<last'.buf>>)
       => Observable(Cache') = Observable(Cache)]_vars

\* the same text was registered again, in a later session, into reused slots
C5_Witness ==
    /\ last.op = "cache_file_contents"
    /\ last.prev = <<last.buf>>
    /\ last.over # {}

\* ---------------------------------------------------------------------- C6
StartsWithBom(b) == Len(b) >= 3 /\ b[1] = 239 /\ b[2] = 187 /\ b[3] = 191

\* read_file returns X for a file BOM X and any other file unchanged
BomStrippedOnRead ==
    /\ \A X \in FileBytes :
          read_file(File(BOM \o X)) = [panic |-> FALSE, bytes |-> X]
    /\ \A b \in FileBytes :
          ~StartsWithBom(b) => read_file(File(b)) = [panic |-> FALSE, bytes |-> b]
    /\ (last.op = "read_file" /\ last.disk.kind = "file") =>
          /\ ~last.panic
          /\ last.ret = (IF StartsWithBom(last.disk.bytes)
                         THEN SubSeq(last.disk.bytes, 4, Len(last.disk.bytes))
                         ELSE last.disk.bytes)

\* load_file of path p does the same for a file BOM X as for a file X
SameAsTwin(p, X) ==
    LET bom == load_file(Cache, p, File(BOM \o X))
        twin == load_file(Cache, p, File(X))
    IN  /\ Shown(bom) = Shown(twin)
        /\ bom.c = twin.c

\* C6 as stated: for every X, read_file of a file BOM X returns X and
\* load_file registers for it what it registers for a file X; a file without
\* the BOM is returned unchanged.
C6_BomTwinAnyX ==
    /\ BomStrippedOnRead
    /\ \A p \in Paths : \A X \in FileBytes : SameAsTwin(p, X)

\* C6 amended: as above, but load_file registers for a file BOM X what it
\* registers for a file X only when X does not itself start with the BOM:
\* one BOM is stripped, not every leading one.
C6_BomTwin ==
    /\ BomStrippedOnRead
    /\ \A p \in Paths : \A X \in FileBytes :
          ~StartsWithBom(X) => SameAsTwin(p, X)

\* load_file read a file BOM "a" and registered "a", with the chunks of "a"
C6_Witness ==
    /\ last.op = "load_file"
    /\ last.read
    /\ last.disk = File(BOM \o <<97>>)
    /\ last.ret = <<97>>
    /\ raw_map[last.on] = last.slot
    /\ arena[last.slot] = IndexedSource_new(<<97>>)

\* ---------------------------------------------------------------------- C7
EmptyShown == [panic |-> FALSE, code |-> <<>>, idx |-> <<>>]

\* what the calls do for path p when its file cannot be opened
MissingYieldsEmpty(p) ==
    LET r == load_file(Cache, p, NoFile)
        m == load_file_and_mask_comments(Cache, p, NoFile)
    IN  /\ Shown(r) = EmptyShown
        /\ r.c.raw_map[p] = r.slot
        /\ Shown(m) = EmptyShown
        /\ m.c.masked_map[p] = m.slot
        /\ Shown(load_file(m.c, p, NoFile)) = EmptyShown

\* C7 as stated: read_file of a path that cannot be opened returns no bytes,
\* and load_file and load_file_and_mask_comments of such a path return a view
\* of the empty text and register it, without a panic.
C7_MissingFileEmptyAnyPath ==
    /\ read_file(NoFile) = [panic |-> FALSE, bytes |-> <<>>]
    /\ \A p \in Paths : MissingYieldsEmpty(p)

\* C7 amended: the same for a path that has no raw registration yet; a
\* registered path keeps showing its registered text when its file is missing.
C7_MissingFileEmpty ==
    /\ read_file(NoFile) = [panic |-> FALSE, bytes |-> <<>>]
    /\ \A p \in Paths : raw_map[p] = 0 => MissingYieldsEmpty(p)
    /\ (last.op \in {"read_file", "load_file", "load_file_and_mask_comments"}
        /\ last.read /\ last.disk = NoFile) =>
          /\ ~last.panic
          /\ ~panicked
          /\ last.ret = <<>>

\* load_file_and_mask_comments was called for a missing file and registered
\* the empty text as raw and as masked source
C7_Witness ==
    /\ last.op = "load_file_and_mask_comments"
    /\ last.read
    /\ last.disk = NoFile
    /\ ~panicked
    /\ last.ret = <<>>
    /\ masked_map[last.on] = last.slot
    /\ raw_map[last.on] # 0
    /\ arena[raw_map[last.on]].code = <<>>

\* ---------------------------------------------------------------------- C8
\* C8: when load_file reads a file whose bytes are not valid UTF-8, the call
\* completes, registers the empty text for the path and returns it, and the
\* cache stays usable.
C8_MalformedRefused ==
    (/\ last.op = "load_file"
     /\ last.read
     /\ last.disk.kind = "file"
     /\ ~from_utf8_ok(read_file(last.disk).bytes)) =>
        /\ ~last.panic
        /\ ~panicked
        /\ last.ret = <<>>
        /\ raw_map[last.on] # 0
        /\ arena[raw_map[last.on]].code = <<>>

\* ---------------------------------------------------------------------- C9
Clip(ch, from, to) == <<Max(ch[1], from) - from, Min(ch[2], to) - from>>

\* out[k..] are the clipped images of chunks idx[j..], in the order of idx
RECURSIVE Embeds(_, _, _, _, _, _)
Embeds(out, k, idx, j, from, to) ==
    IF k > Len(out) THEN TRUE
    ELSE IF j > Len(idx) THEN FALSE
    ELSE IF out[k] = Clip(idx[j], from, to)
         THEN Embeds(out, k + 1, idx, j + 1, from, to)
         ELSE Embeds(out, k, idx, j + 1, from, to)

\* C9: for a view with 0 <= from <= to <= len over sorted, non-overlapping
\* chunks, every pair (a, b) yielded satisfies 0 <= a <= b <= to - from and is
\* (max(start, from) - from, min(end, to) - from) for a stored chunk, and the
\* pairs come in the order of the stored chunks.
C9_PairsClippedInOrder ==
    /\ \A k \in 1..Len(iter.out) :
          /\ 0 <= iter.out[k][1]
          /\ iter.out[k][1] <= iter.out[k][2]
          /\ iter.out[k][2] <= iter.to - iter.from
    /\ Embeds(iter.out, 1, iter.idx, 1, iter.from, iter.to)

\* the iteration is over and has yielded two pairs for a view that starts
\* inside the first chunk and ends inside the second
C9_Witness ==
    /\ iter.done
    /\ Len(iter.out) = 2
    /\ Len(iter.idx) = 2
    /\ iter.idx[1][1] < iter.from
    /\ iter.idx[2][2] > iter.to
    /\ iter.out[1][1] = 0
    /\ iter.out[2][2] = iter.to - iter.from

\* --------------------------------------------------------------------- C10
MapClip(chs, from, to) == [k \in 1..Len(chs) |-> Clip(chs[k], from, to)]

C11_ViewWellFormed ==
    /\ 0 <= substr.v.from
    /\ substr.v.from <= substr.v.to
    /\ substr.v.to <= Len(substr.source.code)

\* --------------------------------------------------------------------- C12
\* C12: in every reachable cache state, each path registered in the masked
\* map is also registered in the raw map, its masked chunk list equals the raw
\* chunk list of the path, and its masked text is mask_comments of the raw
\* text that is registered now (so it has the same length).
C12_RawMaskedAligned ==
    \A p \in Paths :
        masked_map[p] # 0 =>
            /\ raw_map[p] # 0
            /\ arena[masked_map[p]].idx = arena[raw_map[p]].idx
            /\ arena[masked_map[p]].code = MaskText(arena[raw_map[p]].code)
            /\ Len(arena[masked_map[p]].code) = Len(arena[raw_map[p]].code)

\* a path with both registrations was registered again with a text that has
\* a comment, so that the masked text differs from the raw text
C12_Witness ==
    /\ last.op = "cache_file_contents"
    /\ last.prev # <<>>
    /\ masked_map[last.on] # 0
    /\ raw_map[last.on] # 0
    /\ arena[raw_map[last.on]].code = last.buf
    /\ arena[masked_map[last.on]].code # arena[raw_map[last.on]].code

\* --------------------------------------------------------------------- C13
QueryKind == split_into_context_and_completion(query.expr).completetype

\* C13: for the same carved expression, of path kind or of field kind, when
\* find_definition returns Some(m), m is among the matches complete returns,
\* given that every exact-match result is also a starts-with result.
C13_FindIsSelectionOfComplete ==
    (query.completed /\ query.found /\ query.def # <<>>) =>
        query.def[1] \in Range(query.out)

\* find_definition returned a field that is not the first match of complete
C13_Witness ==
    /\ QueryKind = "CompleteField"
    /\ query.completed /\ query.found
    /\ query.def # <<>>
    /\ Len(query.out) = 2
    /\ query.def[1] # query.out[1]
    /\ query.def[1] = query.out[2]

\* --------------------------------------------------------------------- C14
RECURSIVE Pointee(_)
Pointee(ty) == IF ty.kind = "TyRefPtr" THEN Pointee(ty.inner[1]) ELSE ty

\* the fields and methods of the type of the context, references looked
\* through
FieldsOfContext(stype) ==
    LET sp == split_into_context_and_completion(query.expr)
        context == get_type_of(query.env, sp.contextstr)
    IN  IF context = <<>> THEN <<>>
        ELSE IF Pointee(context[1]).kind = "TyMatch"
             THEN search_for_field_or_method(query.env, Pointee(context[1]).m,
                                             sp.searchstr, stype)
             ELSE <<>>

\* C14: on a field-kind expression, complete returns all the starts-with
\* fields and methods of the type of the context and find_definition the
\* first exact one, where Ref(t) nested to any depth counts as t, and any
\* type other than a Match, or no type, gives no result.
C14_FieldResolution ==
    QueryKind = "CompleteField" =>
        /\ query.completed => query.out = FieldsOfContext("StartsWith")
        /\ query.found => query.def = nth0(FieldsOfContext("ExactMatch"))

\* --------------------------------------------------------------------- C15
StartsWithColons(expr) == Len(expr) >= 2 /\ expr[1] = ":" /\ expr[2] = ":"

SegmentNames(path) == [i \in 1..Len(path.segments) |-> path.segments[i].name]

\* the pieces put together again, "::" between them
RECURSIVE Join(_)
Join(pieces) ==
    IF Len(pieces) = 0 THEN <<>>
    ELSE IF Len(pieces) = 1 THEN pieces[1]
         ELSE pieces[1] \o <<":", ":">> \o Join(Tail(pieces))

HasColons(piece) ==
    \E i \in 1..(Len(piece) - 1) : piece[i] = ":" /\ piece[i + 1] = ":"

\* complete and find_definition handed the resolver the same Path, whose
\* segments are the pieces of expr, after the leading "::" when global
SamePathOfPieces(global) ==
    /\ query.cpath = query.fpath
    /\ Len(query.cpath) = 1
    /\ query.cpath[1].global = global
    /\ \A i \in 1..Len(query.cpath[1].segments) :
          /\ query.cpath[1].segments[i].types = <<>>
          /\ i < Len(query.cpath[1].segments) =>
                ~HasColons(query.cpath[1].segments[i].name)
    /\ SegmentNames(query.cpath[1]) =
          (IF global THEN Tail(Split(query.expr, <<>>)) ELSE Split(query.expr, <<>>))
    /\ query.expr # <<>> =>
          query.expr = (IF global THEN <<":", ":">> ELSE <<>>)
                           \o Join(SegmentNames(query.cpath[1]))

C18_NoViewInUseAtDrop ==
    last.op = "drop" =>
        \A sid \in SessionIds : Alive(sid) => views[sid] = {}

\* --------------------------------------------------------------------- C16
\* the slots registered for path p
Registered(p) == {raw_map[p], masked_map[p]} \ {0}

\* the slots that are on the freed list, or are superseded by this step
Deferred ==
    Range(allocations_freed)
        \cup (IF last'.op = "cache_file_contents" THEN Registered(last'.on) ELSE {})

\* C16: a slot superseded by cache_file_contents is put on the freed list,
\* and as long as no Session is dropped a slot on the freed list stays on it,
\* is not returned by alloc and is not written over: re-registrations inside
\* one session never reuse a slot freed in that session.
C16_DeferredReuse ==
    [][last'.op # "drop" =>
          \A k \in Deferred :
              /\ k \in Range(allocations_freed')
              /\ k \notin last'.over
              /\ arena'[k] = arena[k]]_vars

\* load_file took a new slot from the arena while a slot superseded in
\* this session was waiting on the freed list
C16_Witness ==
    /\ last.op = "load_file"
    /\ last.read
    /\ ~last.panic
    /\ last.over = {}
    /\ last.slot = Len(arena)
    /\ allocations_freed # <<>>
    /\ allocations_available = <<>>

\* --------------------------------------------------------------------- C17
\* how many times slot k is on list q
Count(q, k) == Cardinality({i \in 1..Len(q) : q[i] = k})

\* C17: dropping a Session leaves the freed list empty and puts each of its
\* slots on the available list, after the slots that were there, none lost
\* and none twice; it leaves the raw map, the masked map and every text as
\* they were. No other step moves a slot from the freed list or adds a slot
\* to the available list.
C17_GenerationAdvance ==
    [][/\ last'.op = "drop" =>
             /\ allocations_freed' = <<>>
             /\ SubSeq(allocations_available', 1, Len(allocations_available))
                    = allocations_available
             /\ \A k \in 1..Len(arena) :
                    Count(allocations_available', k)
                        = Count(allocations_available, k) + Count(allocations_freed, k)
             /\ raw_map' = raw_map
             /\ masked_map' = masked_map
             /\ arena' = arena
       /\ last'.op # "drop" =>
             /\ SubSeq(allocations_freed', 1, Len(allocations_freed))
                    = allocations_freed
             /\ Range(allocations_available') \subseteq Range(allocations_available)
             /\ Len(allocations_available') <= Len(allocations_available)]_vars

\* a Session was dropped with slots on the freed list and paths registered
C17_Witness ==
    /\ last.op = "drop"
    /\ allocations_freed = <<>>
    /\ Len(allocations_available) >= 2
    /\ \E p \in Paths : raw_map[p] # 0 /\ masked_map[p] # 0

\* --------------------------------------------------------------------- C19
\* the texts alloc is tried with
Values == {IndexedSource_new(buf) : buf \in Bufs}

\* alloc on cache c: a new slot at the end of the arena when available is
\* empty; else the last slot of available, popped and given the new value,
\* with every other slot and the size of the arena as they were
AllocReusesFirst(c) ==
    \A value \in Values :
        LET a == alloc(c, value)
            n == Len(c.available)
        IN  /\ a.c.arena[a.slot] = value
            /\ a.c.raw_map = c.raw_map /\ a.c.masked_map = c.masked_map
            /\ a.c.freed = c.freed
            /\ \A k \in 1..Len(c.arena) : k # a.slot => a.c.arena[k] = c.arena[k]
            /\ IF n = 0
               THEN /\ Len(a.c.arena) = Len(c.arena) + 1
                    /\ a.slot = Len(c.arena) + 1
                    /\ a.c.available = <<>>
               ELSE /\ Len(a.c.arena) = Len(c.arena)
                    /\ a.slot = c.available[n]
                    /\ a.c.available = SubSeq(c.available, 1, n - 1)

\* C19: alloc takes a new slot from the arena only when the available list is
\* empty, and otherwise pops exactly one slot from it and replaces its
\* contents; so a step makes the arena grow only once the available list has
\* run out, it pops one slot for each slot it writes over, and it writes over
\* no other slot.
C19_ReuseBeforeGrow ==
    [][/\ AllocReusesFirst(Cache)
       /\ Len(arena') >= Len(arena)
       /\ Len(arena') > Len(arena) => allocations_available' = <<>>
       /\ last'.op # "drop" =>
             /\ Len(allocations_available') <= Len(allocations_available)
             /\ allocations_available'
                    = SubSeq(allocations_available, 1, Len(allocations_available'))
             /\ last'.over
                    = {allocations_available[i] :
                         i \in (Len(allocations_available') + 1)..Len(allocations_available)}
             /\ Cardinality(last'.over)
                    = Len(allocations_available) - Len(allocations_available')
       /\ \A k \in 1..Len(arena) : k \notin last'.over => arena'[k] = arena[k]]_vars

\* load_file read a file into one recycled slot and left the other
\* available slots for later
C19_Witness ==
    /\ last.op = "load_file"
    /\ last.read
    /\ ~last.panic
    /\ last.over = {last.slot}
    /\ arena[last.slot].code = last.ret
    /\ allocations_available # <<>>
    /\ last.slot \notin Range(allocations_available)

\* --------------------------------------------------------------------- C20
\* in how many places slot k is: as the value of a key of the raw map or of
\* the masked map, on the freed list, on the available list
Places(k) ==
    Cardinality({p \in Paths : raw_map[p] = k})
        + Cardinality({p \in Paths : masked_map[p] = k})
        + Count(allocations_freed, k)
        + Count(allocations_available, k)

\* C20: after every cache operation and Session drop, each arena slot is in
\* exactly one place: registered under one key of one map, or once on the
\* freed list, or once on the available list; and the maps and the lists
\* hold arena slots only.
C20_SlotOwnership ==
    /\ \A k \in 1..Len(arena) : Places(k) = 1
    /\ \A p \in Paths : raw_map[p] \in 0..Len(arena) /\ masked_map[p] \in 0..Len(arena)
    /\ Range(allocations_freed) \cup Range(allocations_available) \subseteq 1..Len(arena)

\* after a call that reused a slot and superseded another: the reused slot
\* is registered and the superseded one is on the freed list
C20_Witness ==
    /\ last.over # {}
    /\ allocations_freed # <<>>
    /\ \E p \in Paths :
          /\ raw_map[p] # 0 /\ masked_map[p] # 0
          /\ last.over \cap {raw_map[p], masked_map[p]} # {}

\* --------------------------------------------------------------------- C21
\* the text and the chunks registered for path q, raw and masked
RegisteredFor(c, q) ==
    [raw |-> IF c.raw_map[q] = 0 THEN <<>> ELSE <<c.arena[c.raw_map[q]]>>,
     masked |-> IF c.masked_map[q] = 0 THEN <<>> ELSE <<c.arena[c.masked_map[q]]>>]

RegisteringOps == {"cache_file_contents", "load_file", "load_file_and_mask_comments"}

\* C21: cache_file_contents, load_file and load_file_and_mask_comments on a
\* path leave the text and the chunks registered for every other path as they
\* were, also when the call writes into a recycled slot.
C21_FrameOfRegistration ==
    [][last'.op \in RegisteringOps
       => \A q \in Paths \ {last'.on} :
            RegisteredFor(Cache', q) = RegisteredFor(Cache, q)]_vars

\* a file was loaded from disk into two recycled slots while another path
\* has its raw and its masked source registered
C21_Witness ==
    /\ last.op = "load_file_and_mask_comments"
    /\ last.read
    /\ Cardinality(last.over) = 2
    /\ \E q \in Paths \ {last.on} : raw_map[q] # 0 /\ masked_map[q] # 0

\* --------------------------------------------------------------------- C22
LoadOps == {"load_file", "load_file_and_mask_comments"}

\* load_file and load_file_and_mask_comments of p, made on cache c with the
\* file missing, valid or malformed, do not read it and return the text that was registered
\* in cache c0: the raw text, and the masked text (the masked registration
\* when there is one, else the raw registration masked)
ReturnsRegistered(c0, c, p) ==
    \A d \in DiskInputs :
        LET raw == load_file(c, p, d)
            masked == load_file_and_mask_comments(c, p, d)
            text == c0.arena[c0.raw_map[p]].code
        IN  /\ ~raw.read /\ ~raw.panic
            /\ Shown(raw).code = text
            /\ ~masked.read /\ ~masked.panic
            /\ Shown(masked).code = IF c0.masked_map[p] # 0
                                     THEN c0.arena[c0.masked_map[p]].code
                                     ELSE MaskText(text)

\* C22: load_file and load_file_and_mask_comments read the filesystem only
\* for a path that has no raw registration; once a path is registered, every
\* later load of it, in this or a later session, returns the registered text
\* whatever the file holds, until cache_file_contents is called for the path;
\* a path registered by cache_file_contents is never read from disk.
C22_LoadOnceStability ==
    [][/\ (last'.op \in LoadOps /\ last'.read)
            => raw_map[last'.on] = 0 /\ cached[last'.on] = <<>>
       /\ \A p \in Paths :
            (raw_map[p] # 0 /\ ~(last'.op = "cache_file_contents" /\ last'.on = p))
                => ReturnsRegistered(Cache, Cache', p)]_vars

\* a path that was registered from disk, never by cache_file_contents, is
\* loaded masked without a read of the file, in a session that follows a
\* drop (the masked source goes into a recycled slot)
C22_Witness ==
    /\ last.op = "load_file_and_mask_comments"
    /\ ~last.read
    /\ ~last.panic
    /\ cached[last.on] = <<>>
    /\ raw_map[last.on] # 0
    /\ last.ret = MaskText(arena[raw_map[last.on]].code)
    /\ last.over # {}
====
